---- MODULE Spec2Model ----
(***************************************************************************)
(* Booking and payment reconciliation of the CrystalChess backend:         *)
(* BookingService (createBooking, cancelBooking, confirmPayment),          *)
(* PaymentService (createRazorpayOrder, completePayment,                   *)
(* recordOfflinePayment, initiateRefund), AdminService                     *)
(* (updateBookingStatus, adminUpdateEvent) and EventService.updateEvent,   *)
(* over the MySQL tables events, bookings, booking_participants and        *)
(* payments.                                                               *)
(*                                                                         *)
(* Every handler is an operator from the database (and the request) to the *)
(* database it leaves and the response it gives. The actions apply the     *)
(* handlers; a handler whose read and write are separated by an await is   *)
(* also given as two steps, so that requests interleave where Node.js      *)
(* lets them.                                                              *)
(*                                                                         *)
(* Money is in paise (hundredths of a rupee); entry fees are whole rupees  *)
(* and concession values whole numbers, so that fee * value / 100 is       *)
(* exact. maxCapacity = 0 stands for the column being NULL: the code tests *)
(* it with `if (event.maxCapacity)`.                                       *)
(***************************************************************************)
EXTENDS Integers, Sequences, FiniteSets, Bags

VARIABLES
    event,                \* the row of table events the requests are about
    bookings,             \* table bookings; bookingId = index (AUTO_INCREMENT)
    bookingParticipants,  \* table booking_participants (the participant links)
    payments,             \* table payments; paymentId = index
    razorpayOrders,       \* ids of the orders that exist at the gateway
    outbox,               \* bag of the bookingIds of the confirmation emails dispatched
    inflight              \* requests suspended between their read and their write

vars == <<event, bookings, bookingParticipants, payments, razorpayOrders,
          outbox, inflight>>

----------------------------------------------------------------------------
\* Bounds of the model

MaxBookings == 2       \* rows of table bookings, in the capacity ledger's model
MaxFollowed == 1       \* rows of table bookings, where payments are followed
MaxPayments == 2       \* rows of table payments
MaxCapacity == 2       \* largest maxCapacity an event is given
MaxEmails == 2         \* confirmation emails dispatched
MaxInFlight == 2       \* requests suspended at the same time
MaxOverRelease == 1    \* how far below 0 currentBookings is followed
MaxFlags == 3          \* participants priced in one call of the pricing

----------------------------------------------------------------------------
\* Fixed data: users, participants, enum values

Users == {"u1", "u2"}
Participants == {"p1", "p2"}
ParticipantOwner == [p \in Participants |-> "u1"]
IsGovtStudent == [p \in Participants |-> p = "p2"]

EventIds == {1, 2}     \* event.eventId = 1; 2: no such event

EVENT_STATUS == {"UPCOMING", "IN_PROGRESS", "COMPLETED", "CANCELLED"}
BOOKING_STATUS == {"PENDING", "CONFIRMED", "CANCELLED", "COMPLETED"}
PAYMENT_STATUS == {"PENDING", "PAID", "REFUNDED", "FAILED"}

\* PAYMENT_GATEWAYS of config/constants.js has the keys RAZORPAY, STRIPE and
\* PAYPAL; PAYMENT_GATEWAYS.OFFLINE is undefined.
PaymentGatewayEnum == {"stripe", "paypal", "razorpay"}
PAYMENT_GATEWAYS_RAZORPAY == "razorpay"
PAYMENT_GATEWAYS_OFFLINE == "undefined"

\* Lists of participants a booking request names (duplicates are not refused
\* by createBookingSchema)
ParticipantLists ==
    {<<"p1">>, <<"p1", "p2">>, <<"p1", "p1">>}

\* The random 4-digit suffixes generateBookingReference draws from
RefSuffixes == {"1000", "1001"}

OfflinePlatformFee == 10

OK == "ok"

----------------------------------------------------------------------------
\* The database as one value

DB == [event |-> event, bookings |-> bookings,
       bookingParticipants |-> bookingParticipants, payments |-> payments]

Range(s) == {s[i] : i \in DOMAIN s}

RECURSIVE SumSeq(_)
SumSeq(s) == IF s = <<>> THEN 0 ELSE Head(s) + SumSeq(Tail(s))

MaxOf(a, b) == IF a >= b THEN a ELSE b

\* booking.participants of `include: { participants: true }`
ParticipantsOf(db, bookingId) ==
    {l \in db.bookingParticipants : l.bookingId = bookingId}

\* What a step inside a transaction, or a handler, gives back
\* (email: the bookings whose confirmation email the handler dispatches)
Done(db) == [ok |-> TRUE, error |-> OK, db |-> db, email |-> <<>>]
Failed(db, msg) == [ok |-> FALSE, error |-> msg, db |-> db, email |-> <<>>]

\* prisma.$transaction(callback): the callback's writes are committed when it
\* returns and rolled back when it throws. `before` is the database when the
\* transaction began, `r` what the callback did.
TransactionNoRollback(before, r) == r

Transaction(before, r) ==
    IF r.ok THEN r ELSE Failed(before, r.error)

----------------------------------------------------------------------------
\* BookingService

\* `${BOOKING_REFERENCE_PREFIX}-${dateStr}-${randomNum}`: the date is today's
\* for every request of the model, the suffix is the random part.
generateBookingReference(suffix) == <<"CC", "20250615", suffix>>

\* JavaScript truthiness of govtConcessionType (NULL is "") and of
\* govtConcessionValue (NULL is 0)
TruthyString(x) == x # ""
TruthyNumber(x) == x # 0

\* The fee of one participant (lines 47-62 of calculateBookingAmount); a
\* RUPEES value is in rupees
participantFeeNoFloor(fee, isGovt, govtConcessionType, govtConcessionValue) ==
    IF isGovt /\ TruthyString(govtConcessionType)
       /\ TruthyNumber(govtConcessionValue)
    THEN IF govtConcessionType = "RUPEES"
         THEN fee - govtConcessionValue * 100
         ELSE IF govtConcessionType = "PERCENTAGE"
              THEN fee - ((fee * govtConcessionValue) \div 100)
              ELSE fee
    ELSE fee

participantFee(fee, isGovt, govtConcessionType, govtConcessionValue) ==
    IF isGovt /\ TruthyString(govtConcessionType)
       /\ TruthyNumber(govtConcessionValue)
    THEN IF govtConcessionType = "RUPEES"
         THEN MaxOf(0, fee - govtConcessionValue * 100)
         ELSE IF govtConcessionType = "PERCENTAGE"
              THEN MaxOf(0, fee - ((fee * govtConcessionValue) \div 100))
              ELSE fee
    ELSE fee

calculateBookingAmount(entryFee, participantDetails, isOnline, govtConcessionType, govtConcessionValue) ==
    LET fees == [i \in DOMAIN participantDetails |->
                    participantFee(entryFee, participantDetails[i].isGovtStudent,
                                   govtConcessionType, govtConcessionValue)]
        totalEventFee == SumSeq(fees)
        platformFee == IF isOnline THEN 0
                       ELSE OfflinePlatformFee * 100 * Len(participantDetails)
    IN  [eventFee |-> totalEventFee,
         platformFee |-> platformFee,
         totalAmount |-> totalEventFee + platformFee,
         participantCount |-> Len(participantDetails)]

\* The capacity check of createBooking (lines 136-142)
insufficientSlotsOffByOne(ev, n) ==
    ev.maxCapacity # 0 /\ ev.maxCapacity - ev.currentBookings < n - 1

insufficientSlots(ev, n) ==
    ev.maxCapacity # 0 /\ ev.maxCapacity - ev.currentBookings < n

\* The reads and checks of createBooking, up to the transaction (lines 113-199).
\* Gives the error, or what the request carries into the transaction.
createBookingCheck(db, userId, eventId, participants) ==
    LET ev == db.event
        strangers == {i \in DOMAIN participants :
                         ParticipantOwner[participants[i]] # userId}
        details == [i \in DOMAIN participants |->
                       [participantId |-> participants[i],
                        isGovtStudent |-> IsGovtStudent[participants[i]]]]
        amounts == calculateBookingAmount(ev.entryFee, details, ev.isOnline,
                       ev.govtConcessionType, ev.govtConcessionValue)
        none == [op |-> "createBooking", userId |-> userId, eventId |-> eventId,
                 participants |-> participants, amount |-> 0]
    IN  IF eventId # ev.eventId
        THEN [ok |-> FALSE, error |-> "Event not found", req |-> none]
        ELSE IF ev.eventStatus # "UPCOMING"
        THEN [ok |-> FALSE,
              error |-> "Bookings are only available for upcoming events",
              req |-> none]
        ELSE IF insufficientSlots(ev, Len(participants))
        THEN [ok |-> FALSE, error |-> "Insufficient slots available",
              req |-> none]
        ELSE IF strangers # {}
        THEN [ok |-> FALSE, error |-> "Participant not found", req |-> none]
        ELSE [ok |-> TRUE, error |-> OK,
              req |-> [none EXCEPT !.amount = amounts.totalAmount]]

\* tx.booking.create (lines 207-216): bookings.booking_reference is UNIQUE
bookingCreate(db, req, bookingReference) ==
    IF \E i \in DOMAIN db.bookings :
           db.bookings[i].bookingReference = bookingReference
    THEN Failed(db, "P2002 booking_reference")
    ELSE Done([db EXCEPT !.bookings = Append(@,
                 [eventId |-> req.eventId,
                  userId |-> req.userId,
                  bookingReference |-> bookingReference,
                  bookingStatus |-> "PENDING",
                  paymentStatus |-> "PENDING",
                  amountPaid |-> req.amount])])

\* tx.bookingParticipant.createMany (lines 219-225): (booking_id,
\* participant_id) is UNIQUE, and the statement inserts all rows or none
bookingParticipantCreateMany(db, bookingId, participants) ==
    IF \E i, j \in DOMAIN participants : i # j /\ participants[i] = participants[j]
    THEN Failed(db, "P2002 uq_booking_participant")
    ELSE Done([db EXCEPT !.bookingParticipants = @ \cup
                 {[bookingId |-> bookingId, participantId |-> participants[i]] :
                      i \in DOMAIN participants}])

\* tx.event.update({ currentBookings: { increment: n } }) and { decrement: n }
eventIncrement(db, n) ==
    Done([db EXCEPT !.event.currentBookings = @ + n])

\* The callback of createBooking's transaction (lines 205-238): it stops at
\* the first statement that throws.
createBookingCallback(db, req, bookingReference) ==
    LET s1 == bookingCreate(db, req, bookingReference)
        s2 == IF s1.ok
              THEN bookingParticipantCreateMany(s1.db, Len(s1.db.bookings),
                                                req.participants)
              ELSE s1
        s3 == IF s2.ok THEN eventIncrement(s2.db, Len(req.participants)) ELSE s2
    IN  s3

createBookingTx(db, req, bookingReference) ==
    Transaction(db, createBookingCallback(db, req, bookingReference))

\* createBooking as one handler: what a request that nothing interleaves does
createBooking(db, userId, eventId, participants, suffix) ==
    LET c == createBookingCheck(db, userId, eventId, participants)
    IN  IF c.ok
        THEN createBookingTx(db, c.req, generateBookingReference(suffix))
        ELSE Failed(db, c.error)

\* "Check if booking can be cancelled" (lines 387-394): the error, or OK
cancelRefusalNoCompleted(bookingStatus) ==
    IF bookingStatus = "CANCELLED" THEN "Booking is already cancelled" ELSE OK

cancelRefusal(bookingStatus) ==
    IF bookingStatus = "CANCELLED" THEN "Booking is already cancelled"
    ELSE IF bookingStatus = "COMPLETED" THEN "Cannot cancel completed booking"
    ELSE OK

\* The read and checks of cancelBooking (lines 372-394): the booking the
\* request carries into its transaction is the one it read here.
cancelBookingCheck(db, bookingId, userId) ==
    LET found == bookingId \in DOMAIN db.bookings
                 /\ db.bookings[bookingId].userId = userId
        none == [op |-> "cancelBooking", bookingId |-> bookingId,
                 eventId |-> 0, paymentStatus |-> "", participants |-> 0]
    IN  IF ~found
        THEN [ok |-> FALSE, error |-> "Booking not found", req |-> none]
        ELSE IF cancelRefusal(db.bookings[bookingId].bookingStatus) # OK
        THEN [ok |-> FALSE,
              error |-> cancelRefusal(db.bookings[bookingId].bookingStatus),
              req |-> none]
        ELSE [ok |-> TRUE, error |-> OK,
              req |-> [none EXCEPT
                         !.eventId = db.bookings[bookingId].eventId,
                         !.paymentStatus = db.bookings[bookingId].paymentStatus,
                         !.participants =
                             Cardinality(ParticipantsOf(db, bookingId))]]

\* The callback of cancelBooking's transaction (lines 397-427); none of its
\* three updates can fail on a row that exists.
cancelBookingCallbackClearsAmount(db, req) ==
    LET s1 == [db EXCEPT !.bookings[req.bookingId].bookingStatus = "CANCELLED"]
        s2 == [s1 EXCEPT !.event.currentBookings = @ - req.participants]
        s3 == IF req.paymentStatus = "PAID"
              THEN [s2 EXCEPT !.bookings[req.bookingId].paymentStatus = "REFUNDED",
                              !.bookings[req.bookingId].amountPaid = 0]
              ELSE s2
    IN  Done(s3)

cancelBookingCallbackRefundsAlways(db, req) ==
    LET s1 == [db EXCEPT !.bookings[req.bookingId].bookingStatus = "CANCELLED"]
        s2 == [s1 EXCEPT !.event.currentBookings = @ - req.participants]
        s3 == [s2 EXCEPT !.bookings[req.bookingId].paymentStatus = "REFUNDED"]
    IN  Done(s3)

cancelBookingCallbackReleaseOne(db, req) ==
    LET s1 == [db EXCEPT !.bookings[req.bookingId].bookingStatus = "CANCELLED"]
        s2 == [s1 EXCEPT !.event.currentBookings = @ - 1]
        s3 == IF req.paymentStatus = "PAID"
              THEN [s2 EXCEPT !.bookings[req.bookingId].paymentStatus = "REFUNDED"]
              ELSE s2
    IN  Done(s3)

cancelBookingCallback(db, req) ==
    LET s1 == [db EXCEPT !.bookings[req.bookingId].bookingStatus = "CANCELLED"]
        s2 == [s1 EXCEPT !.event.currentBookings = @ - req.participants]
        s3 == IF req.paymentStatus = "PAID"
              THEN [s2 EXCEPT !.bookings[req.bookingId].paymentStatus = "REFUNDED"]
              ELSE s2
    IN  Done(s3)

cancelBookingTx(db, req) == Transaction(db, cancelBookingCallback(db, req))

cancelBooking(db, bookingId, userId) ==
    LET c == cancelBookingCheck(db, bookingId, userId)
    IN  IF c.ok THEN cancelBookingTx(db, c.req) ELSE Failed(db, c.error)

\* confirmPayment (lines 439-471), "demo/simulation", routed at
\* POST /bookings/:bookingId/confirm-payment for every authenticated user
confirmPayment(db, bookingId, userId) ==
    LET found == bookingId \in DOMAIN db.bookings
                 /\ db.bookings[bookingId].userId = userId
    IN  IF ~found
        THEN Failed(db, "Booking not found")
        ELSE IF db.bookings[bookingId].bookingStatus = "CANCELLED"
        THEN Failed(db, "Cannot confirm payment for cancelled booking")
        ELSE IF db.bookings[bookingId].paymentStatus = "PAID"
        THEN Failed(db, "Payment already completed")
        ELSE Done([db EXCEPT !.bookings[bookingId].bookingStatus = "CONFIRMED",
                             !.bookings[bookingId].paymentStatus = "PAID"])

----------------------------------------------------------------------------
\* PaymentService

\* config.razorpay.keySecret, and a key that is not it
keySecret == "rzp_key_secret"
otherSecret == "not_the_key_secret"

\* crypto.createHmac("sha256", key).update(body).digest("hex"): a keyed hash
\* without collisions, so two digests are equal only for the same key and body
Hmac(key, body) == [alg |-> "sha256", key |-> key, body |-> body]

\* A request that carries no razorpaySignature
NoSignature == [alg |-> "undefined", key |-> "", body |-> <<>>]

\* orderId + "|" + paymentId
signatureBody(orderId, paymentId) == <<orderId, "|", paymentId>>

verifyRazorpaySignatureAnyKey(orderId, paymentId, signature) ==
    signature.body = signatureBody(orderId, paymentId)

verifyRazorpaySignature(orderId, paymentId, signature) ==
    Hmac(keySecret, signatureBody(orderId, paymentId)) = signature

\* The id the gateway gives its next order
nextOrderId(orders) == <<"order", Cardinality(orders) + 1>>

\* prisma.payment.create: payment_gateway is a required enum column and
\* transaction_id is UNIQUE
paymentCreateAnyGateway(db, row) ==
    IF \E i \in DOMAIN db.payments :
           db.payments[i].transactionId = row.transactionId
    THEN Failed(db, "P2002 transaction_id")
    ELSE Done([db EXCEPT !.payments = Append(@, row)])

paymentCreate(db, row) ==
    IF row.paymentGateway \notin PaymentGatewayEnum
    THEN Failed(db, "Argument paymentGateway is missing")
    ELSE IF \E i \in DOMAIN db.payments :
                db.payments[i].transactionId = row.transactionId
    THEN Failed(db, "P2002 transaction_id")
    ELSE Done([db EXCEPT !.payments = Append(@, row)])

\* The checks of createRazorpayOrder on the booking it found (lines 52-60):
\* the error, or OK
orderRefusalNoCancelled(booking) ==
    IF booking.paymentStatus = "PAID" THEN "Booking is already paid" ELSE OK

orderRefusal(booking) ==
    IF booking.paymentStatus = "PAID" THEN "Booking is already paid"
    ELSE IF booking.bookingStatus = "CANCELLED"
         THEN "Cannot pay for cancelled booking"
         ELSE OK

\* The order at the gateway, then the Payment row (lines 62-86). orderCreated:
\* whether razorpay.orders.create answers; it throws otherwise.
storeOrderRowFirst(db, orders, bookingId, orderCreated) ==
    LET s1 == paymentCreate(db,
                 [bookingId |-> bookingId,
                  transactionId |-> nextOrderId(orders),
                  paymentGateway |-> PAYMENT_GATEWAYS_RAZORPAY,
                  amount |-> db.bookings[bookingId].amountPaid,
                  paymentStatus |-> "PENDING",
                  refundDate |-> "", refundAmount |-> 0])
    IN  IF orderCreated THEN s1 ELSE Failed(s1.db, "razorpay.orders.create failed")

storeOrder(db, orders, bookingId, orderCreated) ==
    IF ~orderCreated
    THEN Failed(db, "razorpay.orders.create failed")
    ELSE paymentCreate(db,
             [bookingId |-> bookingId,
              transactionId |-> nextOrderId(orders),
              paymentGateway |-> PAYMENT_GATEWAYS_RAZORPAY,
              amount |-> db.bookings[bookingId].amountPaid,
              paymentStatus |-> "PENDING",
                  refundDate |-> "", refundAmount |-> 0])

\* createRazorpayOrder (lines 32-95)
createRazorpayOrder(db, orders, bookingId, userId, orderCreated) ==
    LET found == bookingId \in DOMAIN db.bookings
                 /\ db.bookings[bookingId].userId = userId
    IN  IF ~found
        THEN Failed(db, "Booking not found")
        ELSE IF orderRefusal(db.bookings[bookingId]) # OK
        THEN Failed(db, orderRefusal(db.bookings[bookingId]))
        ELSE storeOrder(db, orders, bookingId, orderCreated)

\* The orders at the gateway after createRazorpayOrder: one more when the
\* handler reaches razorpay.orders.create (line 65) and the gateway answers
gatewayOrders(db, orders, bookingId, userId, orderCreated) ==
    IF /\ bookingId \in DOMAIN db.bookings
       /\ db.bookings[bookingId].userId = userId
       /\ orderRefusal(db.bookings[bookingId]) = OK
       /\ orderCreated
    THEN orders \cup {nextOrderId(orders)}
    ELSE orders

\* prisma.payment.findFirst({ where: { transactionId } }): the paymentId, 0 if
\* there is none
paymentByTransactionId(db, transactionId) ==
    LET hits == {i \in DOMAIN db.payments :
                    db.payments[i].transactionId = transactionId}
    IN  IF hits = {} THEN 0 ELSE CHOOSE i \in hits : \A j \in hits : i <= j

\* The callback of completePayment's transaction (lines 159-191)
completePaymentCallbackOnce(db, paymentId) ==
    IF db.payments[paymentId].paymentStatus = "PAID"
    THEN Failed(db, "Payment already completed")
    ELSE Done([db EXCEPT
                 !.payments[paymentId].paymentStatus = "PAID",
                 !.bookings[db.payments[paymentId].bookingId].bookingStatus =
                     "CONFIRMED",
                 !.bookings[db.payments[paymentId].bookingId].paymentStatus =
                     "PAID"])

completePaymentCallback(db, paymentId) ==
    LET bookingId == db.payments[paymentId].bookingId
        s1 == [db EXCEPT !.payments[paymentId].paymentStatus = "PAID"]
        s2 == [s1 EXCEPT !.bookings[bookingId].bookingStatus = "CONFIRMED",
                         !.bookings[bookingId].paymentStatus = "PAID"]
    IN  Done(s2)

\* completePayment (lines 119-201); the email is dispatched after the
\* transaction, and its failure is caught
completePayment(db, razorpayOrderId, razorpayPaymentId, razorpaySignature) ==
    LET paymentId == paymentByTransactionId(db, razorpayOrderId)
        result == Transaction(db, completePaymentCallback(db, paymentId))
    IN  IF ~verifyRazorpaySignature(razorpayOrderId, razorpayPaymentId,
                                    razorpaySignature)
        THEN Failed(db, "Invalid payment signature")
        ELSE IF paymentId = 0
        THEN Failed(db, "Payment record not found")
        ELSE [result EXCEPT !.email = <<db.payments[paymentId].bookingId>>]

\* The callback of completePayment's transaction when the connection to the
\* database is lost after `updatesDone` of its two updates (lines 159-191):
\* the next statement throws
completePaymentCallbackInterrupted(db, paymentId, updatesDone) ==
    LET s1 == [db EXCEPT !.payments[paymentId].paymentStatus = "PAID"]
    IN  IF updatesDone = 0
        THEN Failed(db, "P1017 server has closed the connection")
        ELSE Failed(s1, "P1017 server has closed the connection")

\* completePayment (lines 119-201) with its transaction interrupted: the
\* error leaves the handler before the email
completePaymentInterrupted(db, razorpayOrderId, razorpayPaymentId, razorpaySignature, updatesDone) ==
    LET paymentId == paymentByTransactionId(db, razorpayOrderId)
    IN  IF ~verifyRazorpaySignature(razorpayOrderId, razorpayPaymentId,
                                    razorpaySignature)
        THEN Failed(db, "Invalid payment signature")
        ELSE IF paymentId = 0
        THEN Failed(db, "Payment record not found")
        ELSE Transaction(db,
                 completePaymentCallbackInterrupted(db, paymentId, updatesDone))

\* The callback of recordOfflinePayment's transaction (lines 237-270)
recordOfflinePaymentCallback(db, bookingId) ==
    LET s1 == paymentCreate(db,
                 [bookingId |-> bookingId,
                  transactionId |->
                      <<"OFFLINE", db.bookings[bookingId].bookingReference>>,
                  paymentGateway |-> PAYMENT_GATEWAYS_OFFLINE,
                  amount |-> db.bookings[bookingId].amountPaid,
                  paymentStatus |-> "PAID",
                  refundDate |-> "", refundAmount |-> 0])
    IN  IF s1.ok
        THEN Done([s1.db EXCEPT
                     !.bookings[bookingId].bookingStatus = "CONFIRMED",
                     !.bookings[bookingId].paymentStatus = "PAID"])
        ELSE s1

\* recordOfflinePayment (lines 210-280)
recordOfflinePayment(db, bookingId, userId) ==
    LET found == bookingId \in DOMAIN db.bookings
                 /\ db.bookings[bookingId].userId = userId
        result == Transaction(db, recordOfflinePaymentCallback(db, bookingId))
    IN  IF ~found
        THEN Failed(db, "Booking not found")
        ELSE IF db.bookings[bookingId].paymentStatus = "PAID"
        THEN Failed(db, "Booking is already paid")
        ELSE IF result.ok
        THEN [result EXCEPT !.email = <<bookingId>>]
        ELSE result

\* initiateRefund (lines 315-370). refunded: whether razorpay.payments.refund
\* answers; it throws otherwise. refundDate "" and refundAmount 0 are NULL.
initiateRefundSilent(db, paymentId, refunded) ==
    IF paymentId \notin DOMAIN db.payments
    THEN Failed(db, "Payment not found")
    ELSE IF db.payments[paymentId].paymentStatus # "PAID"
    THEN Failed(db, "Cannot refund unpaid payment")
    ELSE Done([db EXCEPT
                 !.payments[paymentId].paymentStatus = "REFUNDED",
                 !.payments[paymentId].refundDate = "now",
                 !.payments[paymentId].refundAmount =
                     db.payments[paymentId].amount])

initiateRefund(db, paymentId, refunded) ==
    IF paymentId \notin DOMAIN db.payments
    THEN Failed(db, "Payment not found")
    ELSE IF db.payments[paymentId].paymentStatus # "PAID"
    THEN Failed(db, "Cannot refund unpaid payment")
    ELSE IF db.payments[paymentId].paymentGateway = PAYMENT_GATEWAYS_RAZORPAY
            /\ ~refunded
    THEN Failed(db, "Refund failed")
    ELSE Done([db EXCEPT
                 !.payments[paymentId].paymentStatus = "REFUNDED",
                 !.payments[paymentId].refundDate = "now",
                 !.payments[paymentId].refundAmount =
                     db.payments[paymentId].amount])

----------------------------------------------------------------------------
\* AdminService and EventService

\* updateBookingStatus (admin.service.js lines 1038-1084): the status of the
\* request is written as it is
updateBookingStatusReleases(db, bookingId, bookingStatus) ==
    IF bookingId \notin DOMAIN db.bookings
    THEN Failed(db, "Booking not found")
    ELSE Done([db EXCEPT
                 !.bookings[bookingId].bookingStatus = bookingStatus,
                 !.event.currentBookings =
                     IF bookingStatus = "CANCELLED"
                     THEN @ - Cardinality(ParticipantsOf(db, bookingId))
                     ELSE @])

updateBookingStatus(db, bookingId, bookingStatus) ==
    IF bookingId \notin DOMAIN db.bookings
    THEN Failed(db, "Booking not found")
    ELSE Done([db EXCEPT !.bookings[bookingId].bookingStatus = bookingStatus])

\* updateEvent (event.routes.js lines 450-530), for the two columns the
\* bookings depend on. updateData.hasMaxCapacity: maxCapacity !== undefined;
\* updateData.eventStatus = "": no eventStatus in the request.
updateEvent(db, eventId, updateData) ==
    IF eventId # db.event.eventId
    THEN Failed(db, "Event not found or you do not have permission to update it")
    ELSE Done([db EXCEPT
                 !.event.maxCapacity =
                     IF updateData.hasMaxCapacity THEN updateData.maxCapacity
                     ELSE @,
                 !.event.eventStatus =
                     IF updateData.eventStatus # "" THEN updateData.eventStatus
                     ELSE @])

\* adminUpdateEvent (admin.service.js lines 702-785), for the same two
\* columns: every event is the administrator's to update, and the route
\* validates no body
adminUpdateEvent(db, eventId, updateData) ==
    IF eventId # db.event.eventId
    THEN Failed(db, "Event not found")
    ELSE Done([db EXCEPT
                 !.event.maxCapacity =
                     IF updateData.hasMaxCapacity THEN updateData.maxCapacity
                     ELSE @,
                 !.event.eventStatus =
                     IF updateData.eventStatus # "" THEN updateData.eventStatus
                     ELSE @])

\* updateEvent (event.routes.js lines 450-530), for the columns the price of
\* a booking is computed from; every field of `fees` is in the request
updateEventFees(db, eventId, fees) ==
    IF eventId # db.event.eventId
    THEN Failed(db, "Event not found or you do not have permission to update it")
    ELSE Done([db EXCEPT
                 !.event.entryFee = fees.entryFee,
                 !.event.isOnline = fees.isOnline,
                 !.event.govtConcessionType = fees.govtConcessionType,
                 !.event.govtConcessionValue = fees.govtConcessionValue])

----------------------------------------------------------------------------
\* The state machine

\* An event as EventService.createEvent leaves it (UPCOMING, no bookings,
\* maxCapacity a positive number or NULL), priced as in the scenarios of the
\* specification
Init ==
    /\ event \in [eventId : {1},
                  maxCapacity : 0..MaxCapacity,
                  currentBookings : {0},
                  eventStatus : {"UPCOMING"},
                  entryFee : {50000},
                  isOnline : {FALSE},
                  govtConcessionType : {"PERCENTAGE"},
                  govtConcessionValue : {20}]
    /\ bookings = <<>>
    /\ bookingParticipants = {}
    /\ payments = <<>>
    /\ razorpayOrders = {}
    /\ outbox = EmptyBag
    /\ inflight = EmptyBag

\* Entry fees (0, 333 and 500 rupees), concession types (none, RUPEES,
\* PERCENTAGE) and values an organizer gives an event
EntryFeeInputs == {0, 33300, 50000}
ConcessionTypeInputs == {"", "RUPEES", "PERCENTAGE"}
ConcessionValueInputs == {0, 15, 150, 600}

\* Events of every price, without a capacity
InitPricing ==
    /\ event \in [eventId : {1},
                  maxCapacity : {0},
                  currentBookings : {0},
                  eventStatus : {"UPCOMING"},
                  entryFee : EntryFeeInputs,
                  isOnline : BOOLEAN,
                  govtConcessionType : ConcessionTypeInputs,
                  govtConcessionValue : ConcessionValueInputs]
    /\ bookings = <<>>
    /\ bookingParticipants = {}
    /\ payments = <<>>
    /\ razorpayOrders = {}
    /\ outbox = EmptyBag
    /\ inflight = EmptyBag

\* The handler's result becomes the state; its emails are dispatched
Apply(r) ==
    /\ Len(r.db.bookings) <= MaxBookings
    /\ Len(r.db.payments) <= MaxPayments
    /\ BagCardinality(outbox) + Len(r.email) <= MaxEmails
    /\ r.db.event.currentBookings >= 0 - MaxOverRelease
    /\ event' = r.db.event
    /\ bookings' = r.db.bookings
    /\ bookingParticipants' = r.db.bookingParticipants
    /\ payments' = r.db.payments
    /\ outbox' = outbox (+) SetToBag(Range(r.email))

BookingIdInputs == 1..(Len(bookings) + 1)
OrderIdInputs == {<<"order", n>> : n \in 1..(Cardinality(razorpayOrders) + 1)}
PaymentIdInputs == {"pay_A", "pay_B"}
PaymentRowInputs == 1..(Len(payments) + 1)
\* Signatures a request for order o and payment p may carry: the gateway's,
\* one made with another key, the gateway's for another payment, none
SignatureInputs(o, p) ==
    {Hmac(keySecret, signatureBody(o, p)),
     Hmac(otherSecret, signatureBody(o, p)),
     NoSignature}
    \cup {Hmac(keySecret, signatureBody(o, q)) : q \in PaymentIdInputs}
\* Requests that set maxCapacity (0: null) and requests that set eventStatus
UpdateDataInputs ==
    {[hasMaxCapacity |-> TRUE, maxCapacity |-> c, eventStatus |-> ""] :
         c \in 0..MaxCapacity}
    \cup {[hasMaxCapacity |-> FALSE, maxCapacity |-> 0, eventStatus |-> st] :
             st \in {"UPCOMING", "CANCELLED"}}

\* POST /bookings, nothing interleaving
CreateBooking ==
    \E u \in Users, e \in EventIds, ps \in ParticipantLists, sfx \in RefSuffixes :
        /\ Len(bookings) < MaxFollowed
        /\ Apply(createBooking(DB, u, e, ps, sfx))
        /\ UNCHANGED <<razorpayOrders, inflight>>

\* POST /bookings up to the transaction: the request is suspended with what
\* it read
CreateBookingRead ==
    \E u \in Users, e \in EventIds, ps \in ParticipantLists :
        LET c == createBookingCheck(DB, u, e, ps)
        IN  /\ BagCardinality(inflight) < MaxInFlight
            /\ c.ok
            /\ inflight' = inflight (+) SetToBag({c.req})
            /\ UNCHANGED <<event, bookings, bookingParticipants, payments,
                           razorpayOrders, outbox>>

\* POST /bookings from the transaction on
CreateBookingWrite ==
    \E req \in BagToSet(inflight), sfx \in RefSuffixes :
        /\ req.op = "createBooking"
        /\ Apply(createBookingTx(DB, req, generateBookingReference(sfx)))
        /\ inflight' = inflight (-) SetToBag({req})
        /\ UNCHANGED razorpayOrders

\* POST /bookings/:bookingId/cancel
CancelBooking ==
    \E b \in BookingIdInputs, u \in Users :
        /\ Apply(cancelBooking(DB, b, u))
        /\ UNCHANGED <<razorpayOrders, inflight>>

\* POST /bookings/:bookingId/cancel up to the transaction: the request is
\* suspended with the booking it read
CancelBookingRead ==
    \E b \in BookingIdInputs, u \in Users :
        LET c == cancelBookingCheck(DB, b, u)
        IN  /\ BagCardinality(inflight) < MaxInFlight
            /\ c.ok
            /\ inflight' = inflight (+) SetToBag({c.req})
            /\ UNCHANGED <<event, bookings, bookingParticipants, payments,
                           razorpayOrders, outbox>>

\* POST /bookings/:bookingId/cancel from the transaction on
CancelBookingWrite ==
    \E req \in BagToSet(inflight) :
        /\ req.op = "cancelBooking"
        /\ Apply(cancelBookingTx(DB, req))
        /\ inflight' = inflight (-) SetToBag({req})
        /\ UNCHANGED razorpayOrders

\* POST /bookings/:bookingId/confirm-payment
ConfirmPayment ==
    \E b \in BookingIdInputs, u \in Users :
        /\ Apply(confirmPayment(DB, b, u))
        /\ UNCHANGED <<razorpayOrders, inflight>>

\* POST /payments/create-order
CreateRazorpayOrder ==
    \E b \in BookingIdInputs, u \in Users, orderCreated \in BOOLEAN :
        LET r == createRazorpayOrder(DB, razorpayOrders, b, u, orderCreated)
        IN  /\ Apply(r)
            /\ razorpayOrders' =
                   gatewayOrders(DB, razorpayOrders, b, u, orderCreated)
            /\ UNCHANGED inflight

\* POST /payments/verify
CompletePayment ==
    \E o \in OrderIdInputs, p \in PaymentIdInputs :
      \E sig \in SignatureInputs(o, p) :
        /\ Apply(completePayment(DB, o, p, sig))
        /\ UNCHANGED <<razorpayOrders, inflight>>

\* POST /payments/verify while the database fails inside the transaction
CompletePaymentInterrupted ==
    \E o \in OrderIdInputs, p \in PaymentIdInputs, updatesDone \in {0, 1} :
        /\ Apply(completePaymentInterrupted(DB, o, p,
                     Hmac(keySecret, signatureBody(o, p)), updatesDone))
        /\ UNCHANGED <<razorpayOrders, inflight>>

\* POST /payments/offline
RecordOfflinePayment ==
    \E b \in BookingIdInputs, u \in Users :
        /\ Apply(recordOfflinePayment(DB, b, u))
        /\ UNCHANGED <<razorpayOrders, inflight>>

\* PaymentService.initiateRefund, called for a payment
InitiateRefund ==
    \E i \in PaymentRowInputs, refunded \in BOOLEAN :
        /\ Apply(initiateRefund(DB, i, refunded))
        /\ UNCHANGED <<razorpayOrders, inflight>>

\* PUT /admin/bookings/:id/status
UpdateBookingStatus ==
    \E b \in BookingIdInputs, st \in BOOKING_STATUS :
        /\ Apply(updateBookingStatus(DB, b, st))
        /\ UNCHANGED <<razorpayOrders, inflight>>

\* PUT /events/:eventId
UpdateEvent ==
    \E e \in EventIds, d \in UpdateDataInputs :
        /\ Apply(updateEvent(DB, e, d))
        /\ UNCHANGED <<razorpayOrders, inflight>>

\* Requests of the administrator: the organizer's, and those that start or
\* close the event
AdminUpdateDataInputs ==
    UpdateDataInputs
    \cup {[hasMaxCapacity |-> FALSE, maxCapacity |-> 0, eventStatus |-> st] :
             st \in {"IN_PROGRESS", "COMPLETED"}}

\* PUT /admin/events/:id
AdminUpdateEvent ==
    \E e \in EventIds, d \in AdminUpdateDataInputs :
        /\ Apply(adminUpdateEvent(DB, e, d))
        /\ UNCHANGED <<razorpayOrders, inflight>>

\* Prices an organizer changes an event to: free and online, or 333 rupees
\* with a RUPEES concession
FeesInputs ==
    {[entryFee |-> 0, isOnline |-> TRUE,
      govtConcessionType |-> "", govtConcessionValue |-> 0],
     [entryFee |-> 33300, isOnline |-> FALSE,
      govtConcessionType |-> "RUPEES", govtConcessionValue |-> 150]}

\* PUT /events/:eventId with a new price
UpdateEventFees ==
    \E e \in EventIds, fees \in FeesInputs :
        /\ Apply(updateEventFees(DB, e, fees))
        /\ UNCHANGED <<razorpayOrders, inflight>>

\* The life of a booking and its payments, one request after the other
Next ==
    \/ CreateBooking
    \/ CancelBooking
    \/ ConfirmPayment
    \/ CreateRazorpayOrder
    \/ CompletePayment
    \/ RecordOfflinePayment

Spec == Init /\ [][Next]_vars

\* The same with the failures of the database inside completePayment
NextPay ==
    \/ Next
    \/ CompletePaymentInterrupted

SpecPay == Init /\ [][NextPay]_vars

\* Orders asked for bookings made, paid by the demo route and cancelled
NextOrder ==
    \/ CreateBooking
    \/ CancelBooking
    \/ ConfirmPayment
    \/ CreateRazorpayOrder

SpecOrder == Init /\ [][NextOrder]_vars

\* Payments made through the gateway and refunded
NextRefund ==
    \/ CreateBooking
    \/ CreateRazorpayOrder
    \/ CompletePayment
    \/ InitiateRefund

SpecRefund == Init /\ [][NextRefund]_vars

\* Bookings priced on events of every price
NextPricing ==
    \/ CreateBooking
    \/ CancelBooking

SpecPricing == InitPricing /\ [][NextPricing]_vars

\* The first booking of an event without a capacity, followed through every
\* operation on it while the event's price changes
InitUnlimited == Init /\ event.maxCapacity = 0

CreateFirstBooking == bookings = <<>> /\ CreateBooking

NextAmount ==
    \/ CreateFirstBooking
    \/ CancelBooking
    \/ ConfirmPayment
    \/ CreateRazorpayOrder
    \/ CompletePayment
    \/ RecordOfflinePayment
    \/ InitiateRefund
    \/ UpdateBookingStatus
    \/ UpdateEventFees

SpecAmount == InitUnlimited /\ [][NextAmount]_vars

\* Bookings made, paid and cancelled one request after the other, while the
\* organizer and the administrator update the event
NextCapacity ==
    \/ CreateBooking
    \/ CancelBooking
    \/ ConfirmPayment
    \/ UpdateEvent
    \/ AdminUpdateEvent

SpecCapacity == Init /\ [][NextCapacity]_vars

\* Every routed operation on the first booking of an event and on the event
\* (initiateRefund has no route)
NextFrame ==
    \/ CreateFirstBooking
    \/ CancelBooking
    \/ ConfirmPayment
    \/ CreateRazorpayOrder
    \/ CompletePayment
    \/ RecordOfflinePayment
    \/ UpdateBookingStatus
    \/ UpdateEvent
    \/ AdminUpdateEvent

SpecFrame == Init /\ [][NextFrame]_vars

\* The same with the administrator's status override
NextAdmin ==
    \/ Next
    \/ UpdateBookingStatus

SpecAdmin == Init /\ [][NextAdmin]_vars

\* Bookings made, paid by the demo route, cancelled and overridden by the
\* administrator
NextCancel ==
    \/ CreateBooking
    \/ CancelBooking
    \/ ConfirmPayment
    \/ UpdateBookingStatus

SpecCancel == Init /\ [][NextCancel]_vars

\* The same with the offline settlement
NextOffline ==
    \/ NextCancel
    \/ RecordOfflinePayment

SpecOffline == Init /\ [][NextOffline]_vars

\* Concurrent cancellations of bookings made and paid by the demo route; no
\* step of it takes a booking out of CANCELLED
NextCancelRace ==
    \/ CreateBooking
    \/ ConfirmPayment
    \/ CancelBookingRead
    \/ CancelBookingWrite

SpecCancelRace == Init /\ [][NextCancelRace]_vars

\* Cancellations suspended before their transaction while the booking is
\* paid
NextPayRace ==
    \/ CreateBooking
    \/ CreateRazorpayOrder
    \/ CompletePayment
    \/ ConfirmPayment
    \/ RecordOfflinePayment
    \/ CancelBookingRead
    \/ CancelBookingWrite

SpecPayRace == Init /\ [][NextPayRace]_vars

\* The capacity ledger under concurrent booking requests
NextReserve ==
    \/ CreateBookingRead
    \/ CreateBookingWrite
    \/ CancelBooking

SpecReserve == Init /\ [][NextReserve]_vars

\* The same while the organizer changes the event's capacity and status
NextLedger ==
    \/ NextReserve
    \/ UpdateEvent

SpecLedger == Init /\ [][NextLedger]_vars

----------------------------------------------------------------------------
\* Vocabulary of the properties

BookingIds == DOMAIN bookings

Pair(booking) == <<booking.bookingStatus, booking.paymentStatus>>

ConfirmedPaid(booking) == Pair(booking) = <<"CONFIRMED", "PAID">>

\* Participant links of the bookings that are not cancelled
Reserved ==
    Cardinality({l \in bookingParticipants :
                    bookings[l.bookingId].bookingStatus # "CANCELLED"})

\* This step is the handler's successful result r
StepOf(r) ==
    /\ r.ok
    /\ event' = r.db.event
    /\ bookings' = r.db.bookings
    /\ bookingParticipants' = r.db.bookingParticipants
    /\ payments' = r.db.payments
    /\ outbox' = outbox (+) SetToBag(Range(r.email))

\* The signature the gateway gives for order o and payment p
GatewaySignature(o, p) == Hmac(keySecret, signatureBody(o, p))

----------------------------------------------------------------------------
\* C1: for an event with maxCapacity set, under every interleaving of
\* concurrent createBooking requests, the participants of the bookings created
\* (and event.currentBookings) never exceed maxCapacity.
C1_NoOversell ==
    event.maxCapacity # 0 =>
        /\ event.currentBookings <= event.maxCapacity
        /\ Reserved <= event.maxCapacity

\* C2: a booking becomes {CONFIRMED, PAID} only by a step of completePayment
\* with the gateway's signature or of recordOfflinePayment; no other request
\* of a non-admin caller, confirmPayment included, moves it there.
C2_ConfirmedOnlyByVerifiedPayment ==
    [][\A b \in DOMAIN bookings' :
          (/\ ConfirmedPaid(bookings'[b])
           /\ ~(b \in BookingIds /\ ConfirmedPaid(bookings[b])))
          => \/ \E o \in OrderIdInputs, p \in PaymentIdInputs :
                   StepOf(completePayment(DB, o, p, GatewaySignature(o, p)))
             \/ \E c \in BookingIds, u \in Users :
                   StepOf(recordOfflinePayment(DB, c, u))]_vars

\* C3: a step of completePayment changes a booking to {CONFIRMED, PAID} only
\* from {PENDING, PENDING} or {PENDING, FAILED}; it does not confirm a booking
\* that was cancelled after its order was created.
C3_CompletePaymentOnlyFromPending ==
    [][\A o \in OrderIdInputs, p \in PaymentIdInputs :
          LET r == completePayment(DB, o, p, GatewaySignature(o, p))
              b == payments[paymentByTransactionId(DB, o)].bookingId
          IN  (StepOf(r) /\ bookings'[b] # bookings[b])
              => Pair(bookings[b]) \in {<<"PENDING", "PENDING">>,
                                        <<"PENDING", "FAILED">>}]_vars

\* C4: in every reachable state, each booking's (bookingStatus, paymentStatus)
\* is one of the legal pairs.
LegalPairs ==
    {<<"PENDING", "PENDING">>, <<"CONFIRMED", "PAID">>, <<"COMPLETED", "PAID">>}
    \cup {<<"CANCELLED", ps>> : ps \in PAYMENT_STATUS}

C4_LegalPairs ==
    \A b \in BookingIds : Pair(bookings[b]) \in LegalPairs

\* C7: for every booking, the confirmation email is dispatched at most once,
\* however often completePayment is called with the same evidence.
C7_ConfirmationEmailAtMostOnce ==
    \A b \in BookingIds : CopiesIn(b, outbox) <= 1

\* C5: completePayment with a signature that is not the HMAC-SHA256 of
\* orderId|paymentId under the key secret, or with none, fails with 'Invalid
\* payment signature' and changes no Payment row and no Booking row, for every
\* order id and payment id.
C5_InvalidSignatureRejected ==
    \A o \in OrderIdInputs, p \in PaymentIdInputs :
        \A sig \in SignatureInputs(o, p) :
            sig # GatewaySignature(o, p) =>
                LET r == completePayment(DB, o, p, sig)
                IN  /\ ~r.ok
                    /\ r.error = "Invalid payment signature"
                    /\ r.db = DB
                    /\ r.email = <<>>

\* A booking in {PENDING, PENDING} with an order open, which a request signed
\* with another key is refused for
C5_Witness ==
    \E i \in DOMAIN payments :
        /\ payments[i].paymentStatus = "PENDING"
        /\ Pair(bookings[payments[i].bookingId]) = <<"PENDING", "PENDING">>
        /\ completePayment(DB, payments[i].transactionId, "pay_A",
               Hmac(otherSecret,
                    signatureBody(payments[i].transactionId, "pay_A"))).error
           = "Invalid payment signature"

\* C6: completePayment called twice with the same valid evidence: the second
\* call succeeds, the booking is {CONFIRMED, PAID} after each call, and the
\* second call changes neither event.currentBookings nor the booking row nor
\* the Payment row's status.
C6_ReplayIsNoOp ==
    \A o \in OrderIdInputs, p \in PaymentIdInputs :
        LET first == completePayment(DB, o, p, GatewaySignature(o, p))
            second == completePayment(first.db, o, p, GatewaySignature(o, p))
            i == paymentByTransactionId(DB, o)
            b == payments[i].bookingId
        IN  first.ok =>
                /\ ConfirmedPaid(first.db.bookings[b])
                /\ second.ok
                /\ ConfirmedPaid(second.db.bookings[b])
                /\ second.db.event = first.db.event
                /\ second.db.bookings = first.db.bookings
                /\ second.db.payments[i].paymentStatus
                   = first.db.payments[i].paymentStatus

\* The evidence of a paid order has been replayed: two emails went out, and
\* one more call would again succeed
C6_Witness ==
    \E i \in DOMAIN payments :
        /\ payments[i].paymentStatus = "PAID"
        /\ ConfirmedPaid(bookings[payments[i].bookingId])
        /\ CopiesIn(payments[i].bookingId, outbox) >= 2
        /\ completePayment(DB, payments[i].transactionId, "pay_A",
               GatewaySignature(payments[i].transactionId, "pay_A")).ok

\* C8: createBooking's booking insert, link inserts and increment commit as
\* one unit: a step adds either a booking row, all the links of its request
\* and the increment by their number, or none of the three, also when the
\* transaction fails on a duplicate reference or a duplicate link.
C8_CreateBookingAtomic ==
    [][LET newRows == Len(bookings') - Len(bookings)
           newLinks == bookingParticipants' \ bookingParticipants
           increment == event'.currentBookings - event.currentBookings
       IN  /\ bookingParticipants \subseteq bookingParticipants'
           /\ \/ newRows = 0 /\ newLinks = {} /\ increment <= 0
              \/ /\ newRows = 1
                 /\ \E req \in BagToSet(inflight) :
                        /\ inflight' = inflight (-) SetToBag({req})
                        /\ newLinks = {[bookingId |-> Len(bookings'),
                                        participantId |-> req.participants[k]] :
                                          k \in DOMAIN req.participants}
                        /\ Cardinality(newLinks) = Len(req.participants)
                        /\ increment = Len(req.participants)]_vars

\* A booking is in the table and a suspended request is about to fail in its
\* transaction (its reference is taken, or it names a participant twice)
C8_Witness ==
    /\ Len(bookings) >= 1
    /\ \E req \in BagToSet(inflight), sfx \in RefSuffixes :
           LET r == createBookingTx(DB, req, generateBookingReference(sfx))
           IN  ~r.ok /\ r.db = DB

\* C9 as stated, for an event in any status: when maxCapacity is set and
\* currentBookings + k exceeds maxCapacity, a createBooking with k participants
\* fails with 'Insufficient slots available' and changes nothing.
C9_AsStated ==
    \A u \in Users, ps \in ParticipantLists, sfx \in RefSuffixes :
        (/\ event.maxCapacity # 0
         /\ event.currentBookings + Len(ps) > event.maxCapacity)
        => LET r == createBooking(DB, u, event.eventId, ps, sfx)
           IN  /\ ~r.ok
               /\ r.error = "Insufficient slots available"
               /\ r.db = DB

\* C9 (amended): on an event open for bookings (eventStatus UPCOMING) whose
\* maxCapacity is set, when currentBookings + k exceeds maxCapacity a
\* createBooking with k participants fails with 'Insufficient slots available'
\* and leaves event.currentBookings, the bookings table and the participant
\* links unchanged.
C9_InsufficientSlots ==
    \A u \in Users, ps \in ParticipantLists, sfx \in RefSuffixes :
        (/\ event.eventStatus = "UPCOMING"
         /\ event.maxCapacity # 0
         /\ event.currentBookings + Len(ps) > event.maxCapacity)
        => LET r == createBooking(DB, u, event.eventId, ps, sfx)
           IN  /\ ~r.ok
               /\ r.error = "Insufficient slots available"
               /\ r.db = DB
               /\ ~createBookingCheck(DB, u, event.eventId, ps).ok

\* The event is full by a booking made, and one more participant is refused
C9_Witness ==
    /\ event.eventStatus = "UPCOMING"
    /\ event.maxCapacity # 0
    /\ event.currentBookings = event.maxCapacity
    /\ Len(bookings) >= 1
    /\ createBooking(DB, "u1", event.eventId, <<"p1">>, "1001").error
       = "Insufficient slots available"

\* C10: cancelBooking on a booking that is CANCELLED or COMPLETED is rejected
\* (for its owner with 'Booking is already cancelled' / 'Cannot cancel
\* completed booking') and changes neither the booking nor
\* event.currentBookings.
C10_CancelRejected ==
    \A b \in BookingIds, u \in Users :
        bookings[b].bookingStatus \in {"CANCELLED", "COMPLETED"} =>
            LET r == cancelBooking(DB, b, u)
            IN  /\ ~r.ok
                /\ r.db = DB
                /\ u = bookings[b].userId =>
                       r.error = IF bookings[b].bookingStatus = "CANCELLED"
                                 THEN "Booking is already cancelled"
                                 ELSE "Cannot cancel completed booking"

\* A COMPLETED booking, whose owner is refused the cancellation
C10_Witness ==
    \E b \in BookingIds :
        /\ bookings[b].bookingStatus = "COMPLETED"
        /\ cancelBooking(DB, b, bookings[b].userId).error
           = "Cannot cancel completed booking"

\* Requests for at most k participants that createBookingSchema and the
\* participant lookup accept from user u, with a reference no booking has
ValidRequests(db, u, k) ==
    {x \in ParticipantLists \X RefSuffixes :
        /\ Len(x[1]) <= k
        /\ \A i \in DOMAIN x[1] : ParticipantOwner[x[1][i]] = u
        /\ \A i, j \in DOMAIN x[1] : i # j => x[1][i] # x[1][j]
        /\ \A b \in DOMAIN db.bookings :
               db.bookings[b].bookingReference # generateBookingReference(x[2])}

C12_ReleaseAtMostOnce ==
    [][event'.currentBookings < event.currentBookings =>
           \E b \in BookingIds :
               /\ bookings[b].bookingStatus # "CANCELLED"
               /\ bookings'[b].bookingStatus = "CANCELLED"]_vars

\* C13: event.currentBookings is never negative, after every sequence of
\* createBooking, cancelBooking, payment operations and admin
\* updateBookingStatus.
C13_CurrentBookingsNotNegative ==
    event.currentBookings >= 0

\* C14: completePayment updates the Payment row and the Booking row in one
\* transaction: in no reachable state, also after a failure between the two
\* updates, is a gateway Payment row PAID while its booking is {PENDING,
\* PENDING}; an interrupted call leaves the database as it was.
C14_PaymentAndBookingTogether ==
    /\ \A i \in DOMAIN payments :
           (payments[i].paymentGateway = PAYMENT_GATEWAYS_RAZORPAY
            /\ payments[i].paymentStatus = "PAID")
           => Pair(bookings[payments[i].bookingId]) # <<"PENDING", "PENDING">>
    /\ \A o \in OrderIdInputs, p \in PaymentIdInputs, updatesDone \in {0, 1} :
           LET r == completePaymentInterrupted(DB, o, p, GatewaySignature(o, p),
                                               updatesDone)
           IN  ~r.ok /\ r.db = DB /\ r.email = <<>>

\* An open order of a {PENDING, PENDING} booking whose completePayment fails
\* between the Payment update and the Booking update
C14_Witness ==
    \E i \in DOMAIN payments :
        /\ payments[i].paymentStatus = "PENDING"
        /\ Pair(bookings[payments[i].bookingId]) = <<"PENDING", "PENDING">>
        /\ LET r == completePaymentInterrupted(DB, payments[i].transactionId,
                        "pay_B",
                        GatewaySignature(payments[i].transactionId, "pay_B"), 1)
           IN  /\ r.error = "P1017 server has closed the connection"
               /\ r.db = DB

\* C15: createRazorpayOrder is rejected, opens no gateway order and creates no
\* Payment row when the booking does not exist or is not the caller's, when
\* its paymentStatus is PAID, or when its bookingStatus is CANCELLED.
C15_OrderRefused ==
    \A b \in BookingIdInputs, u \in Users, orderCreated \in BOOLEAN :
        (\/ b \notin BookingIds
         \/ bookings[b].userId # u
         \/ bookings[b].paymentStatus = "PAID"
         \/ bookings[b].bookingStatus = "CANCELLED")
        => LET r == createRazorpayOrder(DB, razorpayOrders, b, u, orderCreated)
           IN  /\ ~r.ok
               /\ r.error \in {"Booking not found", "Booking is already paid",
                               "Cannot pay for cancelled booking"}
               /\ r.db = DB
               /\ gatewayOrders(DB, razorpayOrders, b, u, orderCreated)
                  = razorpayOrders

\* A cancelled, unpaid booking, whose owner is refused an order while the
\* gateway would answer
C15_Witness ==
    \E b \in BookingIds :
        /\ Pair(bookings[b]) = <<"CANCELLED", "PENDING">>
        /\ createRazorpayOrder(DB, razorpayOrders, b, bookings[b].userId,
                               TRUE).error
           = "Cannot pay for cancelled booking"

\* C16: when the gateway's order creation fails inside createRazorpayOrder no
\* Payment row is persisted: every PENDING gateway Payment row carries the id
\* of an order the gateway created, a failed call leaves the database and the
\* gateway's orders as they were, and the same call succeeds once the gateway
\* answers.
C16_NoRowWithoutOrder ==
    /\ \A i \in DOMAIN payments :
           (payments[i].paymentGateway = PAYMENT_GATEWAYS_RAZORPAY
            /\ payments[i].paymentStatus = "PENDING")
           => payments[i].transactionId \in razorpayOrders
    /\ \A b \in BookingIds, u \in Users :
           LET r == createRazorpayOrder(DB, razorpayOrders, b, u, FALSE)
           IN  /\ ~r.ok
               /\ r.db = DB
               /\ gatewayOrders(DB, razorpayOrders, b, u, FALSE) = razorpayOrders
               /\ r.error = "razorpay.orders.create failed" =>
                      createRazorpayOrder(r.db, razorpayOrders, b, u, TRUE).ok

\* A booking with an order open, for which one more createRazorpayOrder fails
\* at the gateway
C16_Witness ==
    \E i \in DOMAIN payments :
        /\ payments[i].paymentStatus = "PENDING"
        /\ payments[i].transactionId \in razorpayOrders
        /\ LET b == payments[i].bookingId
               r == createRazorpayOrder(DB, razorpayOrders, b,
                                        bookings[b].userId, FALSE)
           IN  /\ r.error = "razorpay.orders.create failed"
               /\ r.db = DB

C18_RefundOnlyPaidAndRefunded ==
    /\ \A i \in PaymentRowInputs, refunded \in BOOLEAN :
           LET r == initiateRefund(DB, i, refunded)
               legal == /\ i \in DOMAIN payments
                        /\ payments[i].paymentStatus = "PAID"
                        /\ payments[i].paymentGateway = PAYMENT_GATEWAYS_RAZORPAY
                               => refunded
           IN  IF legal
               THEN /\ r.ok
                    /\ r.db = [DB EXCEPT !.payments[i] =
                                 [payments[i] EXCEPT
                                    !.paymentStatus = "REFUNDED",
                                    !.refundDate = "now",
                                    !.refundAmount = payments[i].amount]]
               ELSE /\ ~r.ok
                    /\ r.error \in {"Payment not found",
                                    "Cannot refund unpaid payment",
                                    "Refund failed"}
                    /\ r.db = DB
    /\ \A i \in DOMAIN payments :
           payments[i].paymentStatus = "REFUNDED" =>
               /\ payments[i].refundDate # ""
               /\ payments[i].refundAmount = payments[i].amount

\* A payment has been refunded, and an order that is still open cannot be
C18_Witness ==
    /\ \E i \in DOMAIN payments :
           /\ payments[i].paymentStatus = "REFUNDED"
           /\ payments[i].refundAmount = payments[i].amount
           /\ payments[i].amount > 0
    /\ \E i \in DOMAIN payments :
           /\ payments[i].paymentStatus = "PENDING"
           /\ initiateRefund(DB, i, TRUE).error = "Cannot refund unpaid payment"

\* Lists of isGovtStudent flags, and the participantDetails they stand for
FlagLists == UNION {[1..n -> BOOLEAN] : n \in 0..MaxFlags}

Details(flags) ==
    [i \in DOMAIN flags |-> [participantId |-> "p", isGovtStudent |-> flags[i]]]

\* The reference pricing: the fee of a government student is entryFee less the
\* value (RUPEES) or less entryFee * value / 100 (PERCENTAGE), not below 0
ReferenceGovtFee(entryFee, type, value) ==
    LET reduction == IF type = "RUPEES" THEN value * 100
                     ELSE IF type = "PERCENTAGE" THEN (entryFee * value) \div 100
                     ELSE 0
    IN  IF entryFee - reduction < 0 THEN 0 ELSE entryFee - reduction

ReferencePricing(entryFee, govt, others, isOnline, type, value) ==
    LET eventFee == others * entryFee
                    + govt * ReferenceGovtFee(entryFee, type, value)
        platformFee == IF isOnline THEN 0
                       ELSE OfflinePlatformFee * 100 * (govt + others)
    IN  [eventFee |-> eventFee,
         platformFee |-> platformFee,
         totalAmount |-> eventFee + platformFee,
         participantCount |-> govt + others]

GovtIn(flags) == Cardinality({i \in DOMAIN flags : flags[i]})

\* C19: calculateBookingAmount equals the reference pricing for every event
\* price and every list of flags, totalAmount is never below platformFee and
\* is platformFee when entryFee is 0; 500 rupees, flags [false, true],
\* PERCENTAGE 20, online gives 900 rupees; 500 rupees, one participant without
\* concession, offline, gives 510 rupees; a booking is created with that
\* amount.
C19_PricingIsReference ==
    /\ \A flags \in FlagLists :
           LET amounts == calculateBookingAmount(event.entryFee, Details(flags),
                              event.isOnline, event.govtConcessionType,
                              event.govtConcessionValue)
           IN  /\ amounts = ReferencePricing(event.entryFee, GovtIn(flags),
                                Len(flags) - GovtIn(flags), event.isOnline,
                                event.govtConcessionType,
                                event.govtConcessionValue)
               /\ amounts.totalAmount >= amounts.platformFee
               /\ event.entryFee = 0 => amounts.totalAmount = amounts.platformFee
    /\ calculateBookingAmount(50000, Details(<<FALSE, TRUE>>), TRUE,
                              "PERCENTAGE", 20).totalAmount = 90000
    /\ calculateBookingAmount(50000, Details(<<FALSE>>), FALSE,
                              "", 0).totalAmount = 51000
    /\ \A b \in BookingIds :
           LET govt == Cardinality({l \in ParticipantsOf(DB, b) :
                                       IsGovtStudent[l.participantId]})
               others == Cardinality(ParticipantsOf(DB, b)) - govt
           IN  bookings[b].amountPaid =
                   ReferencePricing(event.entryFee, govt, others, event.isOnline,
                       event.govtConcessionType,
                       event.govtConcessionValue).totalAmount

\* A booking of a government student and another participant on an offline
\* event whose RUPEES concession exceeds the entry fee: the student pays 0
C19_Witness ==
    /\ event.govtConcessionType = "RUPEES"
    /\ event.entryFee > 0
    /\ event.govtConcessionValue * 100 > event.entryFee
    /\ ~event.isOnline
    /\ \E b \in BookingIds :
           /\ Cardinality(ParticipantsOf(DB, b)) = 2
           /\ bookings[b].amountPaid
              = event.entryFee + 2 * OfflinePlatformFee * 100

\* C20: a booking's amountPaid is set once, by createBooking, to the pricing
\* engine's totalAmount for the event's price at that moment, and no later
\* operation changes it: cancelBooking, confirmPayment, createRazorpayOrder,
\* completePayment, recordOfflinePayment, initiateRefund, admin
\* updateBookingStatus, or an update of the event's price.
C20_AmountPaidFixed ==
    [][/\ \A b \in BookingIds :
              /\ b \in DOMAIN bookings'
              /\ bookings'[b].amountPaid = bookings[b].amountPaid
       /\ \A b \in DOMAIN bookings' \ BookingIds :
              \E ps \in ParticipantLists :
                  /\ {l \in bookingParticipants' : l.bookingId = b}
                     = {[bookingId |-> b, participantId |-> ps[i]] :
                            i \in DOMAIN ps}
                  /\ bookings'[b].amountPaid =
                         calculateBookingAmount(event.entryFee,
                             [i \in DOMAIN ps |->
                                 [participantId |-> ps[i],
                                  isGovtStudent |-> IsGovtStudent[ps[i]]]],
                             event.isOnline, event.govtConcessionType,
                             event.govtConcessionValue).totalAmount]_vars

\* A booking paid and then cancelled (refunded), on an event whose price was
\* changed after the booking was made: the amount is still the one of then
C20_Witness ==
    \E b \in BookingIds :
        /\ Pair(bookings[b]) = <<"CANCELLED", "REFUNDED">>
        /\ event.entryFee = 0
        /\ event.isOnline
        /\ bookings[b].amountPaid > 0

\* C21: for every sequence of createBooking, cancelBooking, payment
\* operations, updateEvent and adminUpdateEvent, none interleaved, every
\* reachable state has currentBookings <= maxCapacity when maxCapacity is set.
C21_WithinCapacity ==
    event.maxCapacity # 0 => event.currentBookings <= event.maxCapacity

\* C22: when the reference createBooking generated is already a booking's at
\* insert time, the reference is generated again with a fresh suffix and the
\* insert retried: a request that passes the checks and names no participant
\* twice creates the booking whatever suffix was drawn first, as long as a
\* suffix is free.
C22_ReferenceRetried ==
    \A u \in Users, ps \in ParticipantLists, sfx \in RefSuffixes :
        (/\ createBookingCheck(DB, u, event.eventId, ps).ok
         /\ \A i, j \in DOMAIN ps : i # j => ps[i] # ps[j]
         /\ \E free \in RefSuffixes : \A b \in BookingIds :
                bookings[b].bookingReference # generateBookingReference(free))
        => createBooking(DB, u, event.eventId, ps, sfx).ok

\* C23: event.currentBookings is changed only by createBooking, by the
\* number of the booking's participants, and by cancelBooking, by minus that
\* number; createRazorpayOrder, completePayment, recordOfflinePayment,
\* confirmPayment, initiateRefund, admin updateBookingStatus, updateEvent and
\* adminUpdateEvent leave it as it is, whatever their request.
C23_LedgerFrame ==
    LET current == event.currentBookings
        Same(r) == r.db.event.currentBookings = current
    IN  /\ \A u \in Users, e \in EventIds, ps \in ParticipantLists,
              sfx \in RefSuffixes :
               LET r == createBooking(DB, u, e, ps, sfx)
               IN  r.db.event.currentBookings =
                       IF r.ok
                       THEN current + Cardinality(
                                ParticipantsOf(r.db, Len(r.db.bookings)))
                       ELSE current
        /\ \A b \in BookingIdInputs, u \in Users :
               /\ LET r == cancelBooking(DB, b, u)
                  IN  r.db.event.currentBookings =
                          IF r.ok
                          THEN current - Cardinality(ParticipantsOf(DB, b))
                          ELSE current
               /\ Same(confirmPayment(DB, b, u))
               /\ Same(recordOfflinePayment(DB, b, u))
               /\ \A orderCreated \in BOOLEAN :
                      Same(createRazorpayOrder(DB, razorpayOrders, b, u,
                                               orderCreated))
               /\ \A st \in BOOKING_STATUS : Same(updateBookingStatus(DB, b, st))
        /\ \A o \in OrderIdInputs, p \in PaymentIdInputs :
               \A sig \in SignatureInputs(o, p) :
                   Same(completePayment(DB, o, p, sig))
        /\ \A i \in PaymentRowInputs, refunded \in BOOLEAN :
               Same(initiateRefund(DB, i, refunded))
        /\ \A e \in EventIds :
               /\ \A d \in UpdateDataInputs : Same(updateEvent(DB, e, d))
               /\ \A d \in AdminUpdateDataInputs :
                      Same(adminUpdateEvent(DB, e, d))

\* A paid booking of two participants holds two slots; the administrator can
\* cancel it and lower the capacity, its payment can be refunded and its
\* gateway evidence replayed
C23_Witness ==
    \E i \in DOMAIN payments :
        LET b == payments[i].bookingId
        IN  /\ payments[i].paymentStatus = "PAID"
            /\ ConfirmedPaid(bookings[b])
            /\ event.currentBookings = 2
            /\ updateBookingStatus(DB, b, "CANCELLED").ok
            /\ initiateRefund(DB, i, TRUE).ok
            /\ adminUpdateEvent(DB, event.eventId,
                   [hasMaxCapacity |-> TRUE, maxCapacity |-> 1,
                    eventStatus |-> ""]).ok
            /\ completePayment(DB, payments[i].transactionId, "pay_A",
                   GatewaySignature(payments[i].transactionId, "pay_A")).ok

\* C24: no booking is committed for an event that is not UPCOMING at the
\* moment of the commit, also when an update of the event's status
\* interleaves with a running createBooking: a step that adds a booking row
\* finds the event UPCOMING.
C24_CommitOnlyWhileUpcoming ==
    [][Len(bookings') > Len(bookings) => event.eventStatus = "UPCOMING"]_vars

\* C25: operations on one booking are serialized: whatever the interleaving
\* of a cancelBooking with a completePayment, recordOfflinePayment or
\* confirmPayment on the same booking, the booking ends as one of the two
\* serial orders leaves it ({CONFIRMED, PAID} or {CANCELLED, REFUNDED}), never
\* as {CANCELLED, PAID}, cancelled and paid without the REFUNDED marking.
C25_CancelAndPaySerialized ==
    \A b \in BookingIds : Pair(bookings[b]) # <<"CANCELLED", "PAID">>

\* C26: a cancelBooking by the owner of a PENDING or CONFIRMED booking sets
\* bookingStatus to CANCELLED; a paymentStatus of PAID becomes REFUNDED, any
\* other is left as it was; the booking's Payment rows, its bookingReference,
\* eventId (and every other column) and its participant links are not
\* modified.
C26_CancelEffect ==
    \A b \in BookingIds :
        bookings[b].bookingStatus \in {"PENDING", "CONFIRMED"} =>
            LET r == cancelBooking(DB, b, bookings[b].userId)
            IN  /\ r.ok
                /\ r.db.bookings =
                       [bookings EXCEPT
                          ![b].bookingStatus = "CANCELLED",
                          ![b].paymentStatus =
                              IF @ = "PAID" THEN "REFUNDED" ELSE @]
                /\ r.db.payments = payments
                /\ r.db.bookingParticipants = bookingParticipants

\* A booking paid through the gateway and then cancelled: it is {CANCELLED,
\* REFUNDED} and its Payment row is still PAID
C26_Witness ==
    \E i \in DOMAIN payments :
        /\ payments[i].paymentStatus = "PAID"
        /\ Pair(bookings[payments[i].bookingId]) = <<"CANCELLED", "REFUNDED">>
        /\ ParticipantsOf(DB, payments[i].bookingId) # {}

\* C27: COMPLETED is terminal for the operations of users: on a booking whose
\* bookingStatus is COMPLETED, no cancelBooking, confirmPayment,
\* recordOfflinePayment or completePayment, a replay of earlier valid gateway
\* evidence included, changes the bookingStatus. Stated for the bookings
\* completed after their payment, {COMPLETED, PAID}.
C27_CompletedIsTerminal ==
    \A b \in BookingIds :
        Pair(bookings[b]) = <<"COMPLETED", "PAID">> =>
            LET Kept(r) == r.db.bookings[b].bookingStatus = "COMPLETED"
            IN  /\ \A c \in BookingIdInputs, u \in Users :
                       /\ Kept(cancelBooking(DB, c, u))
                       /\ Kept(confirmPayment(DB, c, u))
                       /\ Kept(recordOfflinePayment(DB, c, u))
                /\ \A o \in OrderIdInputs, p \in PaymentIdInputs :
                       Kept(completePayment(DB, o, p, GatewaySignature(o, p)))

\* C28: whenever a booking becomes {CONFIRMED, PAID}, through completePayment,
\* recordOfflinePayment or confirmPayment, a confirmation email for that
\* booking is dispatched by the request that committed the change.
C28_ConfirmationDispatched ==
    [][\A b \in DOMAIN bookings' :
          (/\ ConfirmedPaid(bookings'[b])
           /\ ~(b \in BookingIds /\ ConfirmedPaid(bookings[b])))
          => CopiesIn(b, outbox') = CopiesIn(b, outbox) + 1]_vars

\* C29: in every reachable state the event's currentBookings is the number
\* of participant links of its bookings that are not CANCELLED, over every
\* sequence of createBooking, cancelBooking, payment operations and admin
\* updateBookingStatus.
C29_LedgerConsistent ==
    event.currentBookings = Reserved

\* C30: in every reachable state a booking has at most one Payment row that
\* is PAID, after every sequence of createRazorpayOrder (repeated for the same
\* unpaid booking or not), completePayment and recordOfflinePayment.
C30_AtMostOnePaidRow ==
    \A b \in BookingIds :
        Cardinality({i \in DOMAIN payments :
                        /\ payments[i].bookingId = b
                        /\ payments[i].paymentStatus = "PAID"}) <= 1

====
